---- MODULE Spec2Model ----
(***************************************************************************)
(* hypothesis-phonenumbers: the format catalog built at module load, the   *)
(* region filter (a generator), the region finder and the phone number     *)
(* strategy (construction and do_draw).                                    *)
(*                                                                         *)
(* The initial state is the one the execution of strategies.py leaves: the *)
(* catalog is built and region_filter and region_finder are bound; the     *)
(* class statement at line 144 raises at line 146, which ends the          *)
(* execution before PhoneNumberStrategy and phone_number are bound.        *)
(*                                                                         *)
(* Python values are represented as follows.                               *)
(*   - a PhoneNumberRegion (a NamedTuple, hence a tuple) is <<cc, rc>>;    *)
(*   - a string produced by a draw is a sequence of one-character strings; *)
(*   - a regular expression is a sequence of character classes (sets of    *)
(*     characters), one class per position;                                *)
(*   - an Optional list argument is [given |-> BOOLEAN, items |-> Seq];    *)
(*   - an attribute that is None or an object is <<>> or <<object>>.       *)
(***************************************************************************)
EXTENDS Integers, Sequences, FiniteSets, TLC

VARIABLES
    metadata,              \* the metadata provider's record of every region
    PHONE_NUMBER_REGIONS,  \* list of every (country_code, region_code)
    NUMBER_FORMATS,        \* list of RegionalNamedFormat rows
    AVAILABILITY_LISTS,    \* format name -> list of regions advertising it
    METADATA_DICT,         \* region -> {id, country_code, regexes, national_prefix?}
    strategy,              \* what a call of PhoneNumberStrategy / phone_number left
    draw,                  \* what the most recent do_draw did
    gen,                   \* one region_filter generator object
    finder                 \* the most recent region_finder call

vars == <<metadata, PHONE_NUMBER_REGIONS, NUMBER_FORMATS, AVAILABILITY_LISTS,
          METADATA_DICT, strategy, draw, gen, finder>>

catalog == <<metadata, PHONE_NUMBER_REGIONS, NUMBER_FORMATS, AVAILABILITY_LISTS,
             METADATA_DICT>>

(***************************************************************************)
(* Bounds of the model.                                                    *)
(***************************************************************************)
\* longest list passed as an argument (regions, formats, codes)
MaxListLen == 2
\* most characters around a match when a pattern is searched, not full-matched
MaxPad == 1

(***************************************************************************)
(* Generic helpers.                                                        *)
(***************************************************************************)
Range(s) == {s[i] : i \in 1..Len(s)}

SeqsUpTo(S, n) == UNION {[1..k -> S] : k \in 0..n}

NoneList == [given |-> FALSE, items |-> <<>>]

List(s) == [given |-> TRUE, items |-> s]

OptionalLists(S) == {NoneList} \cup {List(s) : s \in SeqsUpTo(S, MaxListLen)}

None == "None"

NoneRegion == <<0, None>>

(***************************************************************************)
(* data.py                                                                 *)
(***************************************************************************)
NAMED_NUMBER_FORMATS ==
    << "general_desc", "fixed_line", "mobile", "toll_free", "premium_rate",
       "shared_cost", "personal_number", "voip", "pager", "uan", "emergency",
       "voicemail", "short_code", "standard_rate", "carrier_specific",
       "sms_services", "no_international_dialling" >>

\* PhoneNumberRegion(*region): the first two elements, in field order
PhoneNumberRegion(t) == <<t[1], t[2]>>

RegionalNamedFormat(r, name, regex) ==
    [region |-> r, format_name |-> name, format_regex |-> regex]

(***************************************************************************)
(* The metadata provider (package phonenumbers): which regions exist and   *)
(* what each advertises. The sets below are the provider contents the      *)
(* model ranges over.                                                      *)
(***************************************************************************)
\* dict items in insertion order: calling code -> region codes
COUNTRY_CODE_TO_REGION_CODE ==
    << <<1, <<"US", "CA">> >>, <<61, <<"AU">> >> >>

SUPPORTED_REGIONS == {"US", "CA", "AU"}

US == <<1, "US">>
CA == <<1, "CA">>
AU == <<61, "AU">>
ZZ == <<99, "ZZ">>   \* not a region of the provider

\* a PhoneNumberDesc with this national_number_pattern
Desc(pattern) == <<[national_number_pattern |-> pattern]>>

\* every named attribute of a PhoneMetadata is None unless given
NoDescs == [n \in Range(NAMED_NUMBER_FORMATS) |-> <<>>]

PhoneMetadata(id, cc, prefix, descs) ==
    [id |-> id, country_code |-> cc, national_prefix |-> prefix,
     descs |-> descs @@ NoDescs]

\* "x" stands for any character a pattern admits that is not an ASCII digit
USRecords ==
    { PhoneMetadata("US", 1, "1",
          ("mobile" :> Desc(<<{"2"}, {"0", "1"}>>)) @@
          ("toll_free" :> Desc(<<{"8"}, {"0", "x"}>>))),
      PhoneMetadata("US", 1, "1",
          ("mobile" :> Desc(<<{"2"}, {"0", "1"}>>))) }

CARecords ==
    { PhoneMetadata("CA", 1, "1", ("mobile" :> Desc(<<{"4"}>>))),
      PhoneMetadata("CA", 1, None, <<>>) }

AURecords ==
    { PhoneMetadata("AU", 61, "0",
          ("toll_free" :> Desc(<<{"1"}, {"8"}>>)) @@
          ("emergency" :> Desc(<<{"0"}, {"0"}, {"0"}>>))),
      PhoneMetadata("AU", 61, None,
          ("toll_free" :> Desc(<<{"1"}, {"8"}>>))) }

Providers ==
    { (US :> u) @@ (CA :> c) @@ (AU :> a) :
        u \in USRecords, c \in CARecords, a \in AURecords }

\* PhoneMetadata.metadata_for_region_or_calling_code(country_code, region_code)
metadata_for_region_or_calling_code(md, r) == md[r]

(***************************************************************************)
(* strategies.py, module level: the catalog.                               *)
(***************************************************************************)
RECURSIVE BuildRegions(_)
BuildRegions(items) ==
    IF items = <<>> THEN <<>>
    ELSE LET k == Head(items)[1]
             v == Head(items)[2]
         IN [i \in 1..Len(v) |-> PhoneNumberRegion(<<k, v[i]>>)]
            \o BuildRegions(Tail(items))

\* the format names a metadata record advertises, in vocabulary order
Advertised(m) == SelectSeq(NAMED_NUMBER_FORMATS, LAMBDA n : m.descs[n] # <<>>)

Pattern(m, n) == m.descs[n][1].national_number_pattern

RegionData(m) ==
    LET names == Advertised(m)
        base  == [id |-> m.id, country_code |-> m.country_code,
                  regexes |-> [n \in Range(names) |-> Pattern(m, n)]]
    IN IF m.national_prefix # None
       THEN base @@ [national_prefix |-> m.national_prefix]
       ELSE base

BuildMetadataDict(regions, md) ==
    [r \in Range(regions) |-> RegionData(metadata_for_region_or_calling_code(md, r))]

RegionRows(r, m) ==
    LET names == Advertised(m)
    IN [i \in 1..Len(names) |-> RegionalNamedFormat(r, names[i], Pattern(m, names[i]))]

RECURSIVE BuildNumberFormats(_, _)
BuildNumberFormats(regions, md) ==
    IF regions = <<>> THEN <<>>
    ELSE RegionRows(Head(regions), metadata_for_region_or_calling_code(md, Head(regions)))
         \o BuildNumberFormats(Tail(regions), md)

BuildAvailabilityLists(regions, md) ==
    LET has(r, n) == md[r].descs[n] # <<>>
        keys == {n \in Range(NAMED_NUMBER_FORMATS) : \E r \in Range(regions) : has(r, n)}
    IN [n \in keys |-> SelectSeq(regions, LAMBDA r : has(r, n))]

phone_number_characters == {"0", "1", "2", "3", "4", "5", "6", "7", "8", "9"}

(***************************************************************************)
(* The sampling engine (package hypothesis), as the code calls it.         *)
(***************************************************************************)
\* a Python list and a Python set handed to the engine
PyList(s) == [ordered |-> TRUE, values |-> Range(s)]

PySet(S) == [ordered |-> FALSE, values |-> S]

\* st.sampled_from(elements): the engine samples from ordered collections
\* only and raises InvalidArgument for a set, and for an empty collection;
\* otherwise one draw may produce any element
sampled_from(elements) ==
    IF ~elements.ordered \/ elements.values = {}
    THEN [raises |-> "InvalidArgument", values |-> {}]
    ELSE [raises |-> None, values |-> elements.values]

\* the strings over alphabet that match regex position by position
RECURSIVE Matches(_, _)
Matches(regex, alphabet) ==
    IF regex = <<>> THEN {<<>>}
    ELSE {<<c>> \o rest : c \in Head(regex) \cap alphabet,
                          rest \in Matches(Tail(regex), alphabet)}

\* st.from_regex(regex, alphabet, fullmatch): with fullmatch the whole string
\* matches; without it the string only has to contain a match
from_regex(regex, alphabet, fullmatch) ==
    IF fullmatch THEN Matches(regex, alphabet)
    ELSE {pre \o m \o post : pre \in SeqsUpTo(alphabet, MaxPad),
                             m \in Matches(regex, alphabet),
                             post \in SeqsUpTo(alphabet, MaxPad)}

(***************************************************************************)
(* The class statement, lines 144-196, and what the module binds.          *)
(***************************************************************************)
\* The class body runs line 145, then line 146,
\*     selected_named_number_format = Optional[str] = None
\* a chained assignment: it binds selected_named_number_format and then
\* assigns to the subscription Optional[str], which typing.Optional does not
\* support. The body raises TypeError and no class object is created.
ClassBody ==
    [selected_region |-> NoneRegion, selected_named_number_format |-> None,
     raises |-> "TypeError"]

\* the module-level names bound when the execution of strategies.py ends:
\* those of lines 55-141, and those of lines 144-206 unless the class
\* statement raises
Bound ==
    {"PHONE_NUMBER_REGIONS", "NUMBER_FORMATS", "AVAILABILITY_LISTS", "METADATA_DICT",
     "phone_number_characters", "region_filter", "region_finder",
     "named_number_formats_from_regions"}
    \cup (IF ClassBody.raises = None THEN {"PhoneNumberStrategy", "phone_number"} ELSE {})

(***************************************************************************)
(* PhoneNumberStrategy.__init__                                            *)
(***************************************************************************)
\* self.regions
ResolveRegions(regions) ==
    IF ~regions.given THEN PHONE_NUMBER_REGIONS
    ELSE [i \in 1..Len(regions.items) |-> PhoneNumberRegion(regions.items[i])]

\* the supplied regions the constructor rejects
InvalidRegions(regions) ==
    IF ~regions.given THEN {}
    ELSE {r \in Range(ResolveRegions(regions)) : r \notin Range(PHONE_NUMBER_REGIONS)}

\* the supplied format names the constructor rejects
InvalidFormats(named_number_formats) ==
    IF ~named_number_formats.given THEN {}
    ELSE {n \in Range(named_number_formats.items) : n \notin Range(NAMED_NUMBER_FORMATS)}

\* self.named_number_formats
ResolveFormats(named_number_formats) ==
    IF ~named_number_formats.given THEN NAMED_NUMBER_FORMATS
    ELSE named_number_formats.items

\* self.available_formats
AvailableFormats(regions, names) ==
    SelectSeq(NUMBER_FORMATS,
              LAMBDA row : /\ row.region \in Range(regions)
                           /\ row.format_name \in Range(names))

\* no call has been made; an instance reads the two selected_* attributes
\* from the class until do_draw assigns them
NoInstance ==
    [status |-> "none", error |-> None,
     args |-> [regions |-> NoneList, named_number_formats |-> NoneList],
     regions |-> <<>>, named_number_formats |-> <<>>, available_formats |-> <<>>,
     selected_region |-> ClassBody.selected_region,
     selected_named_number_format |-> ClassBody.selected_named_number_format]

\* the call of a name the module never bound: the lookup of the name fails
Unbound(name, regions, named_number_formats) ==
    [NoInstance EXCEPT
        !.status = "NameError", !.error = name,
        !.args = [regions |-> regions, named_number_formats |-> named_number_formats]]

\* the instance __init__ leaves, or the error it raises
PhoneNumberStrategy(regions, named_number_formats) ==
    LET a == [regions |-> regions, named_number_formats |-> named_number_formats]
    IN IF InvalidRegions(regions) # {}
       THEN [NoInstance EXCEPT !.status = "InvalidArgument",
                               !.error = "Invalid region", !.args = a]
       ELSE IF InvalidFormats(named_number_formats) # {}
       THEN [NoInstance EXCEPT !.status = "InvalidArgument",
                               !.error = "Invalid number format", !.args = a]
       ELSE [NoInstance EXCEPT
                !.status = "constructed", !.args = a,
                !.regions = ResolveRegions(regions),
                !.named_number_formats = ResolveFormats(named_number_formats),
                !.available_formats =
                    AvailableFormats(ResolveRegions(regions),
                                     ResolveFormats(named_number_formats))]

\* phone_number(*, regions, number_formats) under @defines_strategy: the call
\* returns a lazy strategy holding the arguments; the body, hence __init__,
\* runs when the engine first unwraps it
phone_number(regions, number_formats) ==
    [NoInstance EXCEPT
        !.status = "lazy",
        !.args = [regions |-> regions, named_number_formats |-> number_formats]]

NoDraw ==
    [status |-> "none", error |-> None, sampled |-> <<>>, format |-> None,
     value |-> <<>>]

\* the arguments strategies are constructed with
RegionArgs == OptionalLists({US, CA, AU, ZZ})

FormatArgs == OptionalLists({"mobile", "toll_free", "not_a_real_format"})

\* a caller evaluates PhoneNumberStrategy(regions=..., named_number_formats=...)
Construct ==
    /\ strategy.status = "none"
    /\ \E regions \in RegionArgs, named_number_formats \in FormatArgs :
           strategy' = IF "PhoneNumberStrategy" \in Bound
                       THEN PhoneNumberStrategy(regions, named_number_formats)
                       ELSE Unbound("PhoneNumberStrategy", regions, named_number_formats)
    /\ UNCHANGED <<catalog, draw, gen, finder>>

\* a caller evaluates phone_number(regions=..., number_formats=...)
ConstructByPhoneNumber ==
    /\ strategy.status = "none"
    /\ \E regions \in RegionArgs, number_formats \in FormatArgs :
           strategy' = IF "phone_number" \in Bound
                       THEN phone_number(regions, number_formats)
                       ELSE Unbound("phone_number", regions, number_formats)
    /\ UNCHANGED <<catalog, draw, gen, finder>>

\* the engine unwraps the lazy strategy: lines 203-206 run
Unwrap ==
    /\ strategy.status = "lazy"
    /\ strategy' = PhoneNumberStrategy(strategy.args.regions,
                                       strategy.args.named_number_formats)
    /\ UNCHANGED <<catalog, draw, gen, finder>>

(***************************************************************************)
(* PhoneNumberStrategy.do_draw                                             *)
(***************************************************************************)
\* lines 184-186: available_formats, a set
SelectableFormats(s, r) ==
    PySet(DOMAIN METADATA_DICT[r].regexes \cap Range(s.named_number_formats))

\* the strings the from_regex call of do_draw may produce
DrawString(regex) == from_regex(regex, phone_number_characters, TRUE)

Raised(sampled, format) ==
    [status |-> "raised", error |-> "InvalidArgument", sampled |-> sampled,
     format |-> format, value |-> <<>>]

do_draw ==
    /\ strategy.status = "constructed"
    /\ LET regions == sampled_from(PyList(strategy.regions))
       IN IF regions.raises # None
          THEN \* line 183 raises: nothing is assigned
               /\ draw' = Raised(<<>>, None)
               /\ UNCHANGED strategy
          ELSE \E r \in regions.values :
               LET formats == sampled_from(SelectableFormats(strategy, r))
               IN IF formats.raises # None
                  THEN \* line 183 has assigned the region, line 187 raises
                       /\ strategy' = [strategy EXCEPT !.selected_region = r]
                       /\ draw' = Raised(<<r>>, None)
                  ELSE \E f \in formats.values :
                       LET strings == DrawString(METADATA_DICT[r].regexes[f])
                           s == [strategy EXCEPT !.selected_region = r,
                                                 !.selected_named_number_format = f]
                       IN IF strings = {}
                          THEN \* no string over the alphabet matches
                               /\ strategy' = s
                               /\ draw' = Raised(<<r>>, f)
                          ELSE \E v \in strings :
                               /\ strategy' = s
                               /\ draw' = [status |-> "returned", error |-> None,
                                           sampled |-> <<r>>, format |-> f,
                                           value |-> v]
    /\ UNCHANGED <<catalog, gen, finder>>

(***************************************************************************)
(* region_filter: a generator function. Calling it runs none of its body;  *)
(* each next() on the generator runs the body up to the next yield.        *)
(***************************************************************************)
\* truth value of an Optional[bool] argument: None, True or False
Truthy(b) == b = "True"

\* truth value of an Optional list argument: None and [] are false
NonEmpty(l) == l.given /\ l.items # <<>>

\* the list `checks` that lines 106-111 build for one region
Checks(region, has_national_trunk_prefix, required_number_formats) ==
    (IF Truthy(has_national_trunk_prefix)
     THEN << "national_prefix" \in DOMAIN METADATA_DICT[region] >>
     ELSE <<>>)
    \o
    (IF NonEmpty(required_number_formats)
     THEN [i \in 1..Len(required_number_formats.items) |->
              required_number_formats.items[i] \in DOMAIN METADATA_DICT[region].regexes]
     ELSE <<>>)

Passes_Any(region, has_national_trunk_prefix, required_number_formats) ==
    \E b \in Range(Checks(region, has_national_trunk_prefix, required_number_formats)) : b

\* all(checks)
Passes(region, has_national_trunk_prefix, required_number_formats) ==
    \A b \in Range(Checks(region, has_national_trunk_prefix, required_number_formats)) : b

\* line 101: the condition under which the body raises ValueError
InvalidRequired(required_number_formats) ==
    /\ required_number_formats.given
    /\ ~(Range(required_number_formats.items) \subseteq Range(NAMED_NUMBER_FORMATS))

\* the sequence the body iterates
FilterInput(g) ==
    IF g.regions_to_filter.given THEN g.regions_to_filter.items
    ELSE PHONE_NUMBER_REGIONS

NoGen ==
    [status |-> "none", error |-> None, regions_to_filter |-> NoneList,
     has_national_trunk_prefix |-> None, required_number_formats |-> NoneList,
     pos |-> 1, yielded |-> <<>>]

FilterRegionArgs == OptionalLists({US, CA, AU})

FilterBoolArgs == {None, "True", "False"}

FilterFormatArgs == OptionalLists({"mobile", "toll_free", "not_a_real_format"})

\* region_filter(...): returns the generator, positioned before line 101
RegionFilterCall ==
    /\ gen.status = "none"
    /\ \E regions_to_filter \in FilterRegionArgs,
          has_national_trunk_prefix \in FilterBoolArgs,
          required_number_formats \in FilterFormatArgs :
           gen' = [NoGen EXCEPT
                      !.status = "created",
                      !.regions_to_filter = regions_to_filter,
                      !.has_national_trunk_prefix = has_national_trunk_prefix,
                      !.required_number_formats = required_number_formats]
    /\ UNCHANGED <<catalog, strategy, draw, finder>>

\* next(generator): up to the next yield, the end of the loop, or a raise
RegionFilterNext ==
    /\ gen.status \in {"created", "suspended"}
    /\ IF gen.status = "created" /\ InvalidRequired(gen.required_number_formats)
       THEN gen' = [gen EXCEPT !.status = "raised", !.error = "ValueError"]
       ELSE LET input == FilterInput(gen)
                hits  == {j \in gen.pos..Len(input) :
                             Passes(input[j], gen.has_national_trunk_prefix,
                                    gen.required_number_formats)}
            IN IF hits = {}
               THEN gen' = [gen EXCEPT !.status = "finished", !.pos = Len(input) + 1]
               ELSE LET j == CHOOSE k \in hits : \A l \in hits : k <= l
                    IN gen' = [gen EXCEPT !.status = "suspended", !.pos = j + 1,
                                          !.yielded = Append(@, input[j])]
    /\ UNCHANGED <<catalog, strategy, draw, finder>>

(***************************************************************************)
(* region_finder                                                           *)
(***************************************************************************)
\* a Python int or str
PyInt(i) == [ty |-> "int", i |-> i, s |-> ""]

PyStr(s) == [ty |-> "str", i |-> 0, s |-> s]

\* str.upper() on the strings the model passes
Upper(s) ==
    CASE s = "us" -> "US"
      [] s = "ca" -> "CA"
      [] s = "au" -> "AU"
      [] s = "zz" -> "ZZ"
      [] OTHER -> s

CallingCodes == {COUNTRY_CODE_TO_REGION_CODE[i][1] : i \in 1..Len(COUNTRY_CODE_TO_REGION_CODE)}

\* lines 123-125 on one element: the exception it raises, or None
CountryCodeCheck(country_code) ==
    IF country_code.ty # "str" THEN "AttributeError"
    ELSE IF Upper(country_code.s) \notin SUPPORTED_REGIONS THEN "InvalidArgument"
    ELSE None

\* lines 127-129 on one element: the exception it raises, or None
RegionCodeCheck(region_code) ==
    IF region_code.ty = "int" /\ region_code.i \in CallingCodes THEN "InvalidArgument"
    ELSE None

\* index of the first iteration of a validation loop that raises, 0 when
\* none does; raised[i] is what iteration i raises
FirstRaising(raised) ==
    LET bad == {i \in 1..Len(raised) : raised[i] # None}
    IN IF bad = {} THEN 0 ELSE CHOOSE i \in bad : \A j \in bad : i <= j

FinderResult(status, error, offending, value) ==
    [status |-> status, error |-> error, offending |-> offending, value |-> value]

\* the outcome of region_finder(country_codes, region_codes)
region_finder(country_codes, region_codes) ==
    LET cc == FirstRaising([i \in 1..Len(country_codes.items) |->
                                CountryCodeCheck(country_codes.items[i])])
        rc == FirstRaising([i \in 1..Len(region_codes.items) |->
                                RegionCodeCheck(region_codes.items[i])])
    IN IF country_codes.given /\ region_codes.given
       THEN FinderResult("raised", "InvalidArgument", PyStr(None), <<>>)
       ELSE IF country_codes.given /\ cc # 0
       THEN FinderResult("raised", CountryCodeCheck(country_codes.items[cc]),
                         country_codes.items[cc], <<>>)
       ELSE IF region_codes.given /\ rc # 0
       THEN FinderResult("raised", RegionCodeCheck(region_codes.items[rc]),
                         region_codes.items[rc], <<>>)
       ELSE IF country_codes.given
       THEN FinderResult("returned", None, PyStr(None),
                SelectSeq(PHONE_NUMBER_REGIONS,
                          LAMBDA r : PyInt(r[1]) \in Range(country_codes.items)))
       ELSE IF region_codes.given
       THEN FinderResult("returned", None, PyStr(None),
                SelectSeq(PHONE_NUMBER_REGIONS,
                          LAMBDA r : PyStr(r[2]) \in Range(region_codes.items)))
       ELSE \* falls off the end: returns None
            FinderResult("returned None", None, PyStr(None), <<>>)

NoFinder ==
    [status |-> "none", error |-> None, offending |-> PyStr(None), value |-> <<>>,
     country_codes |-> NoneList, region_codes |-> NoneList]

CodeArgs == OptionalLists({PyInt(1), PyInt(99), PyStr("US"), PyStr("au"), PyStr("ZZ")})

RegionFinderCall ==
    /\ finder.status = "none"
    /\ \E country_codes \in CodeArgs, region_codes \in CodeArgs :
           finder' = region_finder(country_codes, region_codes)
                     @@ [country_codes |-> country_codes, region_codes |-> region_codes]
    /\ UNCHANGED <<catalog, strategy, draw, gen>>

Init ==
    /\ metadata \in Providers
    /\ PHONE_NUMBER_REGIONS = BuildRegions(COUNTRY_CODE_TO_REGION_CODE)
    /\ NUMBER_FORMATS = BuildNumberFormats(PHONE_NUMBER_REGIONS, metadata)
    /\ AVAILABILITY_LISTS = BuildAvailabilityLists(PHONE_NUMBER_REGIONS, metadata)
    /\ METADATA_DICT = BuildMetadataDict(PHONE_NUMBER_REGIONS, metadata)
    /\ strategy = NoInstance
    /\ draw = NoDraw
    /\ gen = NoGen
    /\ finder = NoFinder

\* Unwrap and do_draw need a lazy strategy or an instance; the module binds
\* neither PhoneNumberStrategy nor phone_number, so no state enables them.
Next ==
    \/ Construct
    \/ ConstructByPhoneNumber

Spec == Init /\ [][Next]_vars

NextFilter ==
    \/ RegionFilterCall
    \/ RegionFilterNext

SpecFilter == Init /\ [][NextFilter]_vars

NextFinder == RegionFinderCall

SpecFinder == Init /\ [][NextFinder]_vars

(***************************************************************************)
(* Vocabulary of the properties.                                           *)
(***************************************************************************)
\* every (country code, region code) pair the provider knows
KnownRegions ==
    UNION {{<<COUNTRY_CODE_TO_REGION_CODE[i][1], rc>> :
               rc \in Range(COUNTRY_CODE_TO_REGION_CODE[i][2])} :
           i \in 1..Len(COUNTRY_CODE_TO_REGION_CODE)}

Vocabulary == Range(NAMED_NUMBER_FORMATS)

\* the format names the provider registers for region r
Registered(r) == {n \in Vocabulary : metadata[r].descs[n] # <<>>}

Last(s) == s[Len(s)]

(***************************************************************************)
(* Properties of the strategy, checked under Spec.                         *)
(***************************************************************************)
\* No call produces a lazy strategy or an instance, and no draw happens: every
\* call of PhoneNumberStrategy or phone_number ends in the failed lookup of
\* the name, and the catalog is as the module built it.
NoInstanceEver ==
    /\ strategy.status \in {"none", "NameError"}
    /\ strategy.regions = <<>>
    /\ strategy.available_formats = <<>>
    /\ draw = NoDraw
    /\ ~ENABLED Unwrap
    /\ ~ENABLED do_draw

\* NUMBER_FORMATS holds one row (r, f, regex) for every region r and format f
\* that the record of r in METADATA_DICT maps to regex, and no other row.
CatalogRows ==
    LET rows == UNION {{RegionalNamedFormat(r, f, METADATA_DICT[r].regexes[f]) :
                          f \in DOMAIN METADATA_DICT[r].regexes} :
                       r \in Range(PHONE_NUMBER_REGIONS)}
    IN /\ Range(NUMBER_FORMATS) = rows
       /\ Len(NUMBER_FORMATS) = Cardinality(rows)
       /\ DOMAIN METADATA_DICT = KnownRegions

\* C2: with regions omitted the resolved regions are all known regions; with
\* an explicit list they are exactly that list, normalized, and construction
\* fails when an element is not a region of the catalog.
C2_ResolvedRegions ==
    LET a == strategy.args.regions
        normalized == [i \in 1..Len(a.items) |-> <<a.items[i][1], a.items[i][2]>>]
        unknown == a.given /\ \E i \in 1..Len(a.items) : normalized[i] \notin KnownRegions
        f == strategy.args.named_number_formats
        badFormat == f.given /\ ~(Range(f.items) \subseteq Vocabulary)
    IN strategy.status \notin {"none", "lazy"} =>
        /\ unknown => strategy.status = "InvalidArgument" /\ strategy.regions = <<>>
        /\ (~unknown /\ ~badFormat) => strategy.status = "constructed"
        /\ strategy.status = "constructed" =>
              IF a.given THEN strategy.regions = normalized
              ELSE /\ Range(strategy.regions) = KnownRegions
                   /\ Len(strategy.regions) = Cardinality(KnownRegions)

\* C3: a format list with a name outside the vocabulary fails construction
\* with InvalidArgument at the call, before any draw; otherwise construction
\* does not fail for this reason and the resolved formats are the supplied
\* list, or the whole vocabulary when the list is omitted.
C3_FormatNamesValidated ==
    LET a == strategy.args.named_number_formats
        outside == a.given /\ \E n \in Range(a.items) : n \notin Vocabulary
    IN strategy.status # "none" =>
        /\ outside => /\ strategy.status = "InvalidArgument"
                      /\ draw.status = "none"
        /\ (~outside /\ strategy.status = "InvalidArgument") =>
              strategy.error = "Invalid region"
        /\ strategy.status = "constructed" =>
              /\ a.given => strategy.named_number_formats = a.items
              /\ ~a.given => /\ strategy.named_number_formats = NAMED_NUMBER_FORMATS
                             /\ Cardinality(Range(strategy.named_number_formats)) = Len(NAMED_NUMBER_FORMATS)

\* the arguments are one known region and one valid format name
SingleRegionAndFormat ==
    /\ strategy.status \notin {"none", "lazy"}
    /\ strategy.args.regions.given
    /\ Len(strategy.args.regions.items) = 1
    /\ strategy.args.regions.items[1] \in KnownRegions
    /\ strategy.args.named_number_formats.given
    /\ Len(strategy.args.named_number_formats.items) = 1
    /\ strategy.args.named_number_formats.items[1] \in Vocabulary

\* C7: with one known region and one valid format, construction fails when
\* the region has no entry for the format; when it has one, construction
\* succeeds and every draw selects that region and that format.
C7_FailsAtConstruction ==
    SingleRegionAndFormat =>
        LET r == strategy.args.regions.items[1]
            f == strategy.args.named_number_formats.items[1]
        IN IF f \notin Registered(r)
           THEN strategy.status = "InvalidArgument"
           ELSE /\ strategy.status = "constructed"
                /\ draw.status # "none" => /\ draw.sampled = <<r>>
                                           /\ draw.format = f
                                           /\ strategy.selected_region = r
                                           /\ strategy.selected_named_number_format = f

(***************************************************************************)
(* Properties of region_filter, checked under SpecFilter.                  *)
(***************************************************************************)
\* the condition of the filter in the words of its contract
ShouldPass(r, has_national_trunk_prefix, required_number_formats) ==
    /\ \/ has_national_trunk_prefix # "True"
       \/ "national_prefix" \in DOMAIN METADATA_DICT[r]
    /\ \/ ~required_number_formats.given
       \/ required_number_formats.items = <<>>
       \/ \A n \in Range(required_number_formats.items) :
              n \in DOMAIN METADATA_DICT[r].regexes

\* C4: with valid required formats the generator yields, in input order and
\* once per occurrence, exactly the regions that have a national prefix when
\* one is required and have every required format when formats are required.
C4_FilterYieldsExactly ==
    gen.status \in {"suspended", "finished"} =>
        LET input == IF gen.regions_to_filter.given
                     THEN gen.regions_to_filter.items
                     ELSE BuildRegions(COUNTRY_CODE_TO_REGION_CODE)
            seen == SubSeq(input, 1, gen.pos - 1)
        IN /\ gen.yielded =
                 SelectSeq(seen, LAMBDA r : ShouldPass(r, gen.has_national_trunk_prefix,
                                                       gen.required_number_formats))
           /\ gen.status = "finished" => gen.pos = Len(input) + 1
           /\ gen.status = "suspended" => gen.yielded # <<>> /\ Last(gen.yielded) = Last(seen)

\* a generator that ran to its end with a prefix and a format required and
\* yielded some but not all of its input
C4_Witness ==
    /\ gen.status = "finished"
    /\ gen.has_national_trunk_prefix = "True"
    /\ gen.required_number_formats = List(<<"mobile">>)
    /\ gen.yielded # <<>>
    /\ Len(gen.yielded) < Len(FilterInput(gen))

\* C6 as stated: a call whose required formats are not all in the vocabulary
\* fails in the call itself with InvalidFormatName, and yields no region.
C6_RaisedByTheCall ==
    (gen.status # "none" /\ InvalidRequired(gen.required_number_formats)) =>
        /\ gen.status = "raised"
        /\ gen.error = "InvalidFormatName"
        /\ gen.yielded = <<>>

(***************************************************************************)
(* Properties of region_finder, checked under SpecFinder.                  *)
(***************************************************************************)
\* C5 as stated: the call raises InvalidArgument exactly when both selectors
\* are given, or a country code is not a calling code, or a region code is
\* not a region abbreviation, naming the offending value; with one selector
\* and no such value it returns the catalog regions whose country code (or
\* region code) is in the list, in catalog order.
C5_FinderContract ==
    finder.status # "none" =>
        LET cc == finder.country_codes
            rc == finder.region_codes
            badCC == {v \in Range(cc.items) : ~(v.ty = "int" /\ v.i \in CallingCodes)}
            badRC == {v \in Range(rc.items) : ~(v.ty = "str" /\ v.s \in SUPPORTED_REGIONS)}
            both == cc.given /\ rc.given
            fails == both \/ (cc.given /\ badCC # {}) \/ (rc.given /\ badRC # {})
        IN /\ fails <=> (finder.status = "raised" /\ finder.error = "InvalidArgument")
           /\ (fails /\ ~both) => finder.offending \in badCC \cup badRC
           /\ (~fails /\ cc.given) =>
                 /\ finder.status = "returned"
                 /\ finder.value = SelectSeq(PHONE_NUMBER_REGIONS,
                        LAMBDA r : \E v \in Range(cc.items) : v.ty = "int" /\ v.i = r[1])
           /\ (~fails /\ rc.given) =>
                 /\ finder.status = "returned"
                 /\ finder.value = SelectSeq(PHONE_NUMBER_REGIONS,
                        LAMBDA r : \E v \in Range(rc.items) : v.ty = "str" /\ v.s = r[2])

====
